---------------------------- MODULE Spec2Model ----------------------------
(***************************************************************************)
(* Queso Ventures audit generator (src/audit.py): the terminal interview  *)
(* of collect_data, the three network collaborators, the score            *)
(* derivations, main and the document built by build_pdf.                  *)
(*                                                                         *)
(* Text is a sequence of tokens (strings): one token per character where   *)
(* the code looks at characters (typed answers, URLs), one token per       *)
(* opaque chunk elsewhere (page bodies, fixed messages).  Python's None    *)
(* is the text None below, or NoneNum where the value is a number.         *)
(***************************************************************************)
EXTENDS Integers, Sequences, FiniteSets, TLC

VARIABLES
    pc,      \* where the run stands: a prompt of collect_data, main, build_pdf
    data,    \* the record collect_data builds (a Python dict: keys appear as set)
    loc,     \* collect_data's local variables, or a helper's arguments and result
    net,     \* the GET requests issued so far, in order
    asked,   \* the prompts shown to the operator so far, in order
    story,   \* the documents build_pdf has built, in order
    budget   \* answers and outcomes that may still depart from the plain run

vars == <<pc, data, loc, net, asked, story, budget>>

----------------------------------------------------------------------------
(* Bounds of the model *)

\* Non-plain answers or collaborator outcomes explored in one run.
MaxDepartures == 3

\* Findings the operator types before the model stops offering more.
MaxManualFindings == 2

\* Lines a menu rejects before the model stops offering invalid ones.
MaxRejected == 2

----------------------------------------------------------------------------
(* Python values *)

None == <<"<None>">>

NoneNum == -1

EmptyDict == <<>>

Put(d, k, v) == [x \in (DOMAIN d) \cup {k} |-> IF x = k THEN v ELSE d[x]]

\* bool(x) of a text or None
Truthy(t) == t # None /\ t # <<>>

Whitespace == {" "}

RECURSIVE LStrip(_)
LStrip(s) == IF s # <<>> /\ Head(s) \in Whitespace THEN LStrip(Tail(s)) ELSE s

RECURSIVE RStrip(_)
RStrip(s) ==
    IF s # <<>> /\ s[Len(s)] \in Whitespace THEN RStrip(SubSeq(s, 1, Len(s) - 1)) ELSE s

\* str.strip()
Strip(s) == RStrip(LStrip(s))

LowerCh(c) ==
    CASE c = "N" -> "n"
      [] c = "O" -> "o"
      [] c = "E" -> "e"
      [] c = "Y" -> "y"
      [] c = "J" -> "j"
      [] OTHER -> c

\* str.lower()
Lower(s) == [i \in DOMAIN s |-> LowerCh(s[i])]

DecimalDigits == {"0", "1", "2", "3", "4", "5", "6", "7", "8", "9"}

\* Characters str.isdigit() accepts: the decimal digits and digit-like
\* characters such as the superscript two, which int() rejects.
DigitChars == DecimalDigits \cup {"^2"}

\* str.isdigit()
IsDigit(s) == s # <<>> /\ \A i \in DOMAIN s : s[i] \in DigitChars

DigitVal(c) ==
    CASE c = "0" -> 0 [] c = "1" -> 1 [] c = "2" -> 2 [] c = "3" -> 3
      [] c = "4" -> 4 [] c = "5" -> 5 [] c = "6" -> 6 [] c = "7" -> 7
      [] c = "8" -> 8 [] c = "9" -> 9

\* int(s) succeeds on an optional sign followed by decimal digits
IntParses(s) ==
    LET body == IF s # <<>> /\ Head(s) = "-" THEN Tail(s) ELSE s
    IN  body # <<>> /\ \A i \in DOMAIN body : body[i] \in DecimalDigits

RECURSIVE DigitsVal(_)
DigitsVal(s) ==
    IF s = <<>> THEN 0 ELSE 10 * DigitsVal(SubSeq(s, 1, Len(s) - 1)) + DigitVal(s[Len(s)])

\* int(s), where IntParses(s)
ToInt(s) == IF Head(s) = "-" THEN 0 - DigitsVal(Tail(s)) ELSE DigitsVal(s)

\* int(x * 100) of the float x = h / 100: the product falls just below h
\* for these h (0 <= h < 60 and 60 <= h <= 100 otherwise exact)
TruncatedBelow == {29, 57, 58}

IntTimes100(h) == IF h \in TruncatedBelow THEN h - 1 ELSE h

----------------------------------------------------------------------------
(* Helpers, src/audit.py 52-89 *)

score_color_MutAtBoundary(score, max_score) ==
    IF 10 * score <= 4 * max_score THEN "RED"
    ELSE IF 10 * score < 7 * max_score THEN "ORANGE"
    ELSE "GREEN"

\* pct = score / max_score; pct < 0.4, pct < 0.7.  The float quotient
\* compares with 0.4 and 0.7 as the exact quotient does for every score and
\* maximum the program meets (division is correctly rounded).
score_color(score, max_score) ==
    IF 10 * score < 4 * max_score THEN "RED"
    ELSE IF 10 * score < 7 * max_score THEN "ORANGE"
    ELSE "GREEN"

score_label(score, max_score) ==
    IF 10 * score < 4 * max_score THEN "Needs Work"
    ELSE IF 10 * score < 7 * max_score THEN "Fair"
    ELSE "Good"

\* prompt(label, default=...) without options: the stripped line, or the default
PromptText(typed, default) ==
    LET val == Strip(typed) IN IF val # <<>> THEN val ELSE default

PromptMenu_MutNoUpperLimit(typed, n) ==
    LET s == Strip(typed)
    IN  IF IntParses(s) /\ 1 <= ToInt(s) THEN ToInt(s) ELSE NoneNum

\* prompt(label, options=...): one pass of the loop; NoneNum when the line
\* is rejected and the question is asked again
PromptMenu(typed, n) ==
    LET s == Strip(typed)
    IN  IF IntParses(s) /\ 1 <= ToInt(s) /\ ToInt(s) <= n THEN ToInt(s) ELSE NoneNum

StartsWithHttp(url) == url # <<>> /\ Head(url) \in {"http://", "https://"}

clean_url(url) ==
    IF ~Truthy(url) THEN None
    ELSE LET u == Strip(url)
         IN  IF ~StartsWithHttp(u) THEN <<"https://">> \o u ELSE u

----------------------------------------------------------------------------
(* Auto-fetch functions, src/audit.py 100-200 *)

\* What one GET can do: answer with a status and a body, fail on TLS, or
\* fail otherwise (timeout, DNS, connection refused, ...).
Resp(status, text) == [kind |-> "resp", status |-> status, text |-> text]
SslError == [kind |-> "ssl", status |-> 0, text |-> <<>>]
OtherError == [kind |-> "err", status |-> 0, text |-> <<>>]

Get(url, outcome) == [url |-> url, outcome |-> outcome]

NoWebsiteWords == {<<"n", "o", "n", "e">>, <<"n">>, <<>>}

\* except requests.exceptions.SSLError: the plaintext retry (114-121)
http_fallback(clean, o2) ==
    LET clean_http == [i \in DOMAIN clean |->
                          IF clean[i] = "https://" THEN "http://" ELSE clean[i]]
    IN  IF o2.kind = "resp"
        THEN [exists |-> TRUE, url |-> clean_http, html |-> o2.text,
              gets |-> <<Get(clean, SslError), Get(clean_http, o2)>>]
        ELSE [exists |-> FALSE, url |-> clean, html |-> None,
              gets |-> <<Get(clean, SslError), Get(clean_http, o2)>>]

check_website_MutSwallow(url, o1, o2) ==
    IF ~Truthy(url) \/ Lower(url) \in NoWebsiteWords
    THEN [exists |-> FALSE, url |-> None, html |-> <<"No website provided">>,
          gets |-> <<>>]
    ELSE LET clean == clean_url(url)
         IN  CASE o1.kind = "resp" /\ o1.status < 400 ->
                    [exists |-> TRUE, url |-> clean, html |-> o1.text,
                     gets |-> <<Get(clean, o1)>>]
               [] o1.kind = "resp" ->
                    [exists |-> FALSE, url |-> clean, html |-> None,
                     gets |-> <<Get(clean, o1)>>]
               [] o1.kind = "ssl" -> http_fallback(clean, o2)
               [] OTHER ->
                    [exists |-> TRUE, url |-> clean, html |-> <<>>,
                     gets |-> <<Get(clean, o1)>>]

\* check_website(url): (exists, url, html) and the GETs it issued.  o1 is
\* what the first GET does, o2 what the plaintext retry does if there is one.
check_website(url, o1, o2) ==
    IF ~Truthy(url) \/ Lower(url) \in NoWebsiteWords
    THEN [exists |-> FALSE, url |-> None, html |-> <<"No website provided">>,
          gets |-> <<>>]
    ELSE LET clean == clean_url(url)
         IN  CASE o1.kind = "resp" /\ o1.status < 400 ->
                    [exists |-> TRUE, url |-> clean, html |-> o1.text,
                     gets |-> <<Get(clean, o1)>>]
               [] o1.kind = "resp" ->
                    [exists |-> FALSE, url |-> clean, html |-> None,
                     gets |-> <<Get(clean, o1)>>]
               [] o1.kind = "ssl" -> http_fallback(clean, o2)
               [] OTHER ->
                    [exists |-> FALSE, url |-> clean, html |-> None,
                     gets |-> <<Get(clean, o1)>>]

\* What the page-speed lookup can do: raise (transport error, a body that is
\* not JSON), answer JSON of another shape than an object of objects, or
\* answer an object with or without the performance score (in hundredths)
\* and with or without an error message.
PsRaise == [kind |-> "err", score |-> NoneNum, error |-> None]
PsShape == [kind |-> "shape", score |-> NoneNum, error |-> None]
PsJson(score, error) == [kind |-> "json", score |-> score, error |-> error]

PageSpeedApi == <<"pagespeedonline/v5/runPagespeed">>

\* get_pagespeed_score(url): (pct, error) and the GETs it issued
get_pagespeed_score(url, o) ==
    IF ~Truthy(url)
    THEN [pct |-> NoneNum, error |-> <<"No website">>, gets |-> <<>>]
    ELSE LET gets == <<Get(PageSpeedApi \o url, o)>>
         IN  CASE o.kind = "json" /\ o.score # NoneNum ->
                    [pct |-> IntTimes100(o.score), error |-> None, gets |-> gets]
               [] o.kind = "json" ->
                    [pct |-> NoneNum,
                     error |-> IF o.error # None THEN o.error ELSE <<"Unknown error">>,
                     gets |-> gets]
               [] o.kind = "shape" ->
                    [pct |-> NoneNum, error |-> <<"AttributeError">>, gets |-> gets]
               [] OTHER ->
                    [pct |-> NoneNum, error |-> <<"RequestException">>, gets |-> gets]

pagespeed_to_score_MutOffByOne(pct) ==
    IF pct = NoneNum THEN NoneNum
    ELSE IF pct > 90 THEN 5
    ELSE IF pct >= 70 THEN 4
    ELSE IF pct >= 50 THEN 3
    ELSE IF pct >= 30 THEN 2
    ELSE 1

pagespeed_to_score(pct) ==
    IF pct = NoneNum THEN NoneNum
    ELSE IF pct >= 90 THEN 5
    ELSE IF pct >= 70 THEN 4
    ELSE IF pct >= 50 THEN 3
    ELSE IF pct >= 30 THEN 2
    ELSE 1

\* What the listing scrape can do: raise, or fetch a page in whose text the
\* rating pattern, the review-count pattern and the hours words match or not
\* (None: no match).
GbpRaise == [kind |-> "err", rating |-> None, reviews |-> None, hours |-> FALSE]
GbpPage(rating, reviews, hours) ==
    [kind |-> "page", rating |-> rating, reviews |-> reviews, hours |-> hours]

Unknown == <<"?">>

\* scrape_gbp_basics(business_name, city): the dict it returns
scrape_gbp_basics(o) ==
    IF o.kind = "page"
    THEN [rating |-> IF Truthy(o.rating) THEN o.rating ELSE Unknown,
          review_count |-> IF Truthy(o.reviews) THEN o.reviews ELSE Unknown,
          has_hours |-> o.hours]
    ELSE [rating |-> Unknown, review_count |-> Unknown, has_hours |-> FALSE]

----------------------------------------------------------------------------
(* SEO signals and the website score, src/audit.py 202-271 *)

Signals == {"city_in_title", "city_in_h1", "city_in_content",
            "service_mentioned", "is_mobile_ready", "has_phone"}

\* seo.get(k): None, which is falsy, for a key the dict does not hold
SeoGet(seo, k) == IF k \in DOMAIN seo THEN seo[k] ELSE FALSE

\* Twice the penalty of a missing signal (0.5 or 1)
Penalty2(k) == IF k \in {"city_in_title", "city_in_h1", "has_phone"} THEN 1 ELSE 2

Issue(k) ==
    CASE k = "city_in_title" -> <<"City not in page title">>
      [] k = "city_in_h1" -> <<"City not in main headline">>
      [] k = "city_in_content" -> <<"City name not found in page content">>
      [] k = "service_mentioned" -> <<"Service type not clearly mentioned on page">>
      [] k = "is_mobile_ready" -> <<"No mobile viewport meta tag">>
      [] k = "has_phone" -> <<"No phone number detected on page">>

\* The order in which auto_website_score looks at the signals
SignalOrder == <<"city_in_title", "city_in_h1", "city_in_content",
                 "service_mentioned", "is_mobile_ready", "has_phone">>

RECURSIVE Penalties2(_, _)
Penalties2(seo, i) ==
    IF i = 0 THEN 0
    ELSE Penalties2(seo, i - 1)
         + (IF SeoGet(seo, SignalOrder[i]) THEN 0 ELSE Penalty2(SignalOrder[i]))

RECURSIVE Issues(_, _)
Issues(seo, i) ==
    IF i = 0 THEN <<>>
    ELSE Issues(seo, i - 1)
         \o (IF SeoGet(seo, SignalOrder[i]) THEN <<>> ELSE <<Issue(SignalOrder[i])>>)

PyRound2_MutHalfUp(x2) == (x2 + 1) \div 2

\* round(x) of the float x = x2 / 2: Python rounds a half to the even integer
PyRound2(x2) ==
    IF x2 % 2 = 0 THEN x2 \div 2
    ELSE IF (x2 \div 2) % 2 = 0 THEN x2 \div 2 ELSE (x2 \div 2) + 1

Max(a, b) == IF a >= b THEN a ELSE b

auto_website_score_MutFallsThrough(site_exists, seo) ==
    [score |-> Max(1, PyRound2(10 - Penalties2(seo, 6))), issues |-> Issues(seo, 6)]

\* auto_website_score(site_exists, seo): (score, issues)
auto_website_score(site_exists, seo) ==
    IF ~site_exists
    THEN [score |-> 1, issues |-> <<<<"No website found">>>>]
    ELSE [score |-> Max(1, PyRound2(10 - Penalties2(seo, 6))),
          issues |-> Issues(seo, 6)]

----------------------------------------------------------------------------
(* The helpers called on their own: each specification draws the arguments *)
(* in Init and applies the helper once.                                    *)

Idle == data = EmptyDict /\ net = <<>> /\ asked = <<>> /\ story = <<>> /\ budget = 0

IdleUnchanged == UNCHANGED <<data, net, asked, story, budget>>

AllSeo == [Signals -> BOOLEAN]

InitScore ==
    /\ pc = "auto_website_score"
    /\ \E site_exists \in BOOLEAN, seo \in AllSeo \cup {EmptyDict} :
          loc = [site_exists |-> site_exists, seo |-> seo]
    /\ Idle

CallAutoWebsiteScore ==
    /\ pc = "auto_website_score"
    /\ pc' = "returned"
    /\ loc' = [site_exists |-> loc.site_exists, seo |-> loc.seo,
               result |-> auto_website_score(loc.site_exists, loc.seo)]
    /\ IdleUnchanged

NextScore == CallAutoWebsiteScore

SpecScore == InitScore /\ [][NextScore]_vars

Percentages == 0 .. 100

InitSpeed ==
    /\ pc = "pagespeed_to_score"
    /\ \E pct \in Percentages \cup {NoneNum} : loc = [pct |-> pct]
    /\ Idle

CallPagespeedToScore ==
    /\ pc = "pagespeed_to_score"
    /\ pc' = "returned"
    /\ loc' = [pct |-> loc.pct, result |-> pagespeed_to_score(loc.pct)]
    /\ IdleUnchanged

NextSpeed == CallPagespeedToScore

SpecSpeed == InitSpeed /\ [][NextSpeed]_vars

\* The scores build_pdf hands to score_color and score_label: a category
\* score out of 5 and the aggregate out of 25.
TierArgs == {<<s, 5>> : s \in 1 .. 5} \cup {<<t, 25>> : t \in 0 .. 25}

InitTier ==
    /\ pc = "score_tier"
    /\ \E a \in TierArgs :
          loc = [score |-> a[1], max_score |-> a[2], color |-> None, label |-> None]
    /\ Idle

CallScoreColor ==
    /\ pc = "score_tier"
    /\ loc.color = None
    /\ loc' = [loc EXCEPT !.color = <<score_color(loc.score, loc.max_score)>>]
    /\ UNCHANGED pc
    /\ IdleUnchanged

CallScoreLabel ==
    /\ pc = "score_tier"
    /\ loc.label = None
    /\ loc' = [loc EXCEPT !.label = <<score_label(loc.score, loc.max_score)>>]
    /\ UNCHANGED pc
    /\ IdleUnchanged

NextTier == CallScoreColor \/ CallScoreLabel

SpecTier == InitTier /\ [][NextTier]_vars

----------------------------------------------------------------------------
(* prompt called on its own, src/audit.py 64-80 *)

\* Lines typed at a prompt: blank, padded, valid numbers, numbers out of
\* range, a leading zero, a negative number, a word, a digit-like character
\* int() rejects.
PromptLines == {<<>>, <<" ">>, <<"1">>, <<"3">>, <<" ", "3", " ">>, <<"0", "3">>,
                <<"0">>, <<"6">>, <<"-", "1">>, <<"x">>, <<"^2">>}

\* Lengths of the options list; 0 stands for no options (None or empty).
OptionCounts == {0, 1, 3, 5}

PromptDefaults == {None, <<>>, <<"n">>}

InitPrompt ==
    /\ pc = "prompt"
    /\ \E n \in OptionCounts, default \in PromptDefaults :
          /\ n > 0 => default = None
          /\ loc = [options |-> n, default |-> default, lines |-> <<>>,
                    result |-> NoneNum]
    /\ Idle

\* 65-76: one pass of the menu loop
ReadMenuLine ==
    /\ pc = "prompt"
    /\ loc.options > 0
    /\ \E typed \in PromptLines :
          LET val == PromptMenu(typed, loc.options)
          IN  IF val # NoneNum
              THEN /\ loc' = [loc EXCEPT !.lines = Append(@, typed), !.result = val]
                   /\ pc' = "returned"
              ELSE /\ Len(loc.lines) < MaxRejected
                   /\ loc' = [loc EXCEPT !.lines = Append(@, typed)]
                   /\ UNCHANGED pc
    /\ IdleUnchanged

\* 77-80: the free-text branch
ReadTextLine ==
    /\ pc = "prompt"
    /\ loc.options = 0
    /\ \E typed \in PromptLines :
          loc' = [loc EXCEPT !.lines = Append(@, typed),
                             !.result = PromptText(typed, loc.default)]
    /\ pc' = "returned"
    /\ IdleUnchanged

NextPrompt == ReadMenuLine \/ ReadTextLine

SpecPrompt == InitPrompt /\ [][NextPrompt]_vars

----------------------------------------------------------------------------
(* Claims about the helpers *)

\* Twice the sum of the fixed penalties of the signals that are false.
C1_Penalty2(seo) ==
      (IF SeoGet(seo, "city_in_title") THEN 0 ELSE 1)
    + (IF SeoGet(seo, "city_in_h1") THEN 0 ELSE 1)
    + (IF SeoGet(seo, "has_phone") THEN 0 ELSE 1)
    + (IF SeoGet(seo, "city_in_content") THEN 0 ELSE 2)
    + (IF SeoGet(seo, "service_mentioned") THEN 0 ELSE 2)
    + (IF SeoGet(seo, "is_mobile_ready") THEN 0 ELSE 2)

\* Nearest integer to x2 / 2, a half rounding up.
C1_HalfUp(x2) == IF x2 % 2 = 0 THEN x2 \div 2 ELSE (x2 \div 2) + 1

\* Nearest integer to x2 / 2, a half going to the even neighbour:
\* 0.5 -> 0, 1.5 -> 2, 2.5 -> 2, 3.5 -> 4, 4.5 -> 4.
C1_HalfEven(x2) ==
    CASE x2 = 1 -> 0 [] x2 = 3 -> 2 [] x2 = 5 -> 2 [] x2 = 7 -> 4 [] x2 = 9 -> 4
      [] OTHER -> x2 \div 2

C1_Called == pc = "returned" /\ "result" \in DOMAIN loc /\ "seo" \in DOMAIN loc

\* C1 as stated: with the site existing, auto_website_score returns 5 minus
\* the penalties of the false signals, clamped to at least 1 and rounded to
\* the nearest integer with a half rounding up (4.5 gives 5, 2.5 gives 3).
C1_HalfUpScore ==
    (C1_Called /\ loc.site_exists /\ loc.seo \in AllSeo) =>
        loc.result.score = Max(1, C1_HalfUp(10 - C1_Penalty2(loc.seo)))

\* C1 amended: the same sum and the same floor of 1, but a half rounds to
\* the even integer (4.5 gives 4, 2.5 gives 2, 3.5 gives 4, 1.5 gives 2).
C1_HalfEvenScore ==
    (C1_Called /\ loc.site_exists /\ loc.seo \in AllSeo) =>
        loc.result.score = Max(1, C1_HalfEven(10 - C1_Penalty2(loc.seo)))

\* Only the city is missing from the title: 4.5, which the code scores 4.
C1_Witness ==
    /\ C1_Called /\ loc.site_exists /\ loc.seo \in AllSeo
    /\ C1_Penalty2(loc.seo) = 1
    /\ loc.result.score = 4

\* The score the claim gives a percentage.
C2_Expected(p) ==
    IF p >= 90 THEN 5 ELSE IF p >= 70 THEN 4 ELSE IF p >= 50 THEN 3
    ELSE IF p >= 30 THEN 2 ELSE 1

C2_Called == pc = "returned" /\ "pct" \in DOMAIN loc /\ loc.pct \in Percentages

\* C2: for every integer percentage 0..100 pagespeed_to_score follows the
\* fixed thresholds (90->5, 89->4, 70->4, 69->3, 50->3, 49->2, 30->2, 29->1)
\* and is monotonic: no smaller percentage gets a larger score.
C2_Thresholds ==
    C2_Called =>
        /\ loc.result = C2_Expected(loc.pct)
        /\ loc.result \in 1 .. 5
        /\ \A q \in Percentages : q <= loc.pct => pagespeed_to_score(q) <= loc.result
        /\ loc.pct = 90 => loc.result = 5
        /\ loc.pct = 89 => loc.result = 4
        /\ loc.pct = 70 => loc.result = 4
        /\ loc.pct = 69 => loc.result = 3
        /\ loc.pct = 50 => loc.result = 3
        /\ loc.pct = 49 => loc.result = 2
        /\ loc.pct = 30 => loc.result = 2
        /\ loc.pct = 29 => loc.result = 1

C2_Witness == C2_Called /\ loc.pct = 90 /\ loc.result = 5

\* The tier the claim gives a score: 1 below 40% of the maximum, 2 from 40%
\* to below 70%, 3 from 70%.
C3_Tier(score, max_score) ==
    IF 100 * score < 40 * max_score THEN 1
    ELSE IF 100 * score < 70 * max_score THEN 2 ELSE 3

C3_Color(t) == CASE t = 1 -> "RED" [] t = 2 -> "ORANGE" [] t = 3 -> "GREEN"

C3_Label(t) == CASE t = 1 -> "Needs Work" [] t = 2 -> "Fair" [] t = 3 -> "Good"

\* C3: for every score 1..5 out of 5 and every aggregate 0..25 out of 25,
\* score_color and score_label each name the tier of the score (red / Needs
\* Work below 40%, orange / Fair from 40% to below 70%, green / Good from
\* 70%), so the colour and the label of one score name the same tier.
C3_Tiers ==
    pc = "score_tier" =>
        LET t == C3_Tier(loc.score, loc.max_score)
        IN  /\ loc.color # None => loc.color = <<C3_Color(t)>>
            /\ loc.label # None => loc.label = <<C3_Label(t)>>
            /\ (loc.color # None /\ loc.label # None) =>
                  \E u \in 1 .. 3 : loc.color = <<C3_Color(u)>> /\ loc.label = <<C3_Label(u)>>

\* The 40% boundary of both scales, coloured and labelled as the middle tier.
C3_Witness ==
    /\ pc = "score_tier"
    /\ 10 * loc.score = 4 * loc.max_score
    /\ loc.color = <<"ORANGE">>
    /\ loc.label = <<"Fair">>

----------------------------------------------------------------------------
(* The three collaborator calls on their own: Init draws the URL, each     *)
(* call is made once, in any order, with any outcome of its requests.      *)

Html == <<"<html>">>

SiteUrl == <<"j", ".", "c", "o", "m">>

FetchUrls == {None, <<>>, <<"N", "o", "n", "e">>, <<"n">>, SiteUrl,
              <<"http://">> \o SiteUrl, <<"https://">> \o SiteUrl}

FirstGetOutcomes == {Resp(200, Html), Resp(200, <<>>), Resp(399, Html),
                     Resp(400, Html), Resp(500, Html), SslError, OtherError}

RetryGetOutcomes == {Resp(200, Html), Resp(404, Html), Resp(500, <<>>),
                     SslError, OtherError}

PsOutcomes == {PsRaise, PsShape, PsJson(NoneNum, None),
               PsJson(NoneNum, <<"Quota exceeded">>)}
              \cup {PsJson(h, None) : h \in {0, 29, 55, 70, 100}}

GbpOutcomes == {GbpRaise, GbpPage(None, None, FALSE), GbpPage(<<"4.9">>, None, TRUE),
                GbpPage(None, <<"12">>, FALSE), GbpPage(<<"4.9">>, <<"12">>, TRUE)}

SearchUrl == <<"google.com/search">>

InitFetch ==
    /\ pc = "fetch"
    /\ \E url \in FetchUrls : loc = [url |-> url]
    /\ data = EmptyDict /\ net = <<>> /\ asked = <<>> /\ story = <<>> /\ budget = 0

CallCheckWebsite ==
    /\ pc = "fetch"
    /\ "site" \notin DOMAIN loc
    /\ \E o1 \in FirstGetOutcomes, o2 \in RetryGetOutcomes :
          LET r == check_website(loc.url, o1, o2)
          IN  /\ loc' = Put(loc, "site", r)
              /\ net' = net \o r.gets
    /\ UNCHANGED <<pc, data, asked, story, budget>>

CallGetPagespeedScore ==
    /\ pc = "fetch"
    /\ "ps" \notin DOMAIN loc
    /\ \E o \in PsOutcomes :
          LET r == get_pagespeed_score(loc.url, o)
          IN  /\ loc' = Put(loc, "ps", r)
              /\ net' = net \o r.gets
    /\ UNCHANGED <<pc, data, asked, story, budget>>

CallScrapeGbpBasics ==
    /\ pc = "fetch"
    /\ "gbp" \notin DOMAIN loc
    /\ \E o \in GbpOutcomes :
          /\ loc' = Put(loc, "gbp", [ret |-> scrape_gbp_basics(o), gets |-> <<Get(SearchUrl, o)>>])
          /\ net' = Append(net, Get(SearchUrl, o))
    /\ UNCHANGED <<pc, data, asked, story, budget>>

NextFetch == CallCheckWebsite \/ CallGetPagespeedScore \/ CallScrapeGbpBasics

SpecFetch == InitFetch /\ [][NextFetch]_vars

----------------------------------------------------------------------------
(* Claims about the collaborator calls *)

Last(s) == s[Len(s)]

Raised(get) == get.outcome.kind # "resp"

C7_SiteCalled == pc = "fetch" /\ "site" \in DOMAIN loc /\ loc.site.gets # <<>>

C7_PsCalled == pc = "fetch" /\ "ps" \in DOMAIN loc /\ loc.ps.gets # <<>>

C7_GbpCalled == pc = "fetch" /\ "gbp" \in DOMAIN loc

C7_SiteUnavailable == ~loc.site.exists /\ loc.site.html = None

C7_PsUnavailable == loc.ps.pct = NoneNum /\ Truthy(loc.ps.error)

C7_PsFailed ==
    LET o == loc.ps.gets[1].outcome IN o.kind # "json" \/ o.score = NoneNum

C7_GbpUnavailable ==
    loc.gbp.ret.rating = Unknown /\ loc.gbp.ret.review_count = Unknown

C7_OthersUnavailable ==
    /\ (C7_PsCalled /\ C7_PsFailed) => C7_PsUnavailable
    /\ (C7_GbpCalled /\ loc.gbp.gets[1].outcome.kind = "err") => C7_GbpUnavailable
    /\ (C7_GbpCalled /\ loc.gbp.gets[1].outcome.rating = None) =>
          loc.gbp.ret.rating = Unknown
    /\ (C7_GbpCalled /\ loc.gbp.gets[1].outcome.reviews = None) =>
          loc.gbp.ret.review_count = Unknown

\* A step leaves the value every earlier call returned as it was.
C7_OwnResultOnly ==
    \A k \in {"site", "ps", "gbp"} :
        k \in DOMAIN loc => (k \in DOMAIN loc' /\ loc'[k] = loc[k])

\* C7 as stated: whenever a request of the site fetch raises any exception,
\* check_website returns not reachable with no HTML (and the page-speed
\* lookup and the listing scrape return their unavailable values on failure).
C7_AnyExceptionUnavailable ==
    /\ (C7_SiteCalled /\ \E i \in DOMAIN loc.site.gets : Raised(loc.site.gets[i])) =>
          C7_SiteUnavailable
    /\ C7_OthersUnavailable

\* C7 amended: check_website returns not reachable with no HTML when the
\* last request it made raised (the direct request failed other than on TLS,
\* or the plaintext retry after a TLS failure raised as well); a TLS failure
\* whose plaintext retry is answered is reported reachable.  The page-speed
\* lookup returns percentage None with an error message and the listing
\* scrape "?" for what it could not read; no call changes the value another
\* call returned.
C7_Isolated ==
    /\ [](/\ (C7_SiteCalled /\ Raised(Last(loc.site.gets))) => C7_SiteUnavailable
          /\ C7_OthersUnavailable)
    /\ [][C7_OwnResultOnly]_vars

\* The site fetch failed, the other two calls were made after it and kept
\* what they read.
C7_Witness ==
    /\ C7_SiteCalled /\ Raised(Last(loc.site.gets)) /\ C7_SiteUnavailable
    /\ C7_PsCalled /\ loc.ps.pct = 55
    /\ C7_GbpCalled /\ loc.gbp.ret.rating = <<"4.9">>

\* C9: check_website reports the site reachable only when its last GET was
\* answered with a status below 400, on the direct request and on the
\* plaintext retry alike; the retry is made only after a TLS failure of the
\* direct request, to the http:// form of the same URL.
C9_ReachableOnlyBelow400 ==
    (pc = "fetch" /\ "site" \in DOMAIN loc) =>
        /\ loc.site.exists =>
              /\ loc.site.gets # <<>>
              /\ Last(loc.site.gets).outcome.kind = "resp"
              /\ Last(loc.site.gets).outcome.status < 400
        /\ Len(loc.site.gets) <= 2
        /\ Len(loc.site.gets) = 2 => loc.site.gets[1].outcome.kind = "ssl"

----------------------------------------------------------------------------
(* One run of the program: main -> collect_data -> build_pdf.  Each action *)
(* is the stretch of code from one point where the program waits (for a    *)
(* typed line, for a collaborator) to the next.                            *)

\* The plain run answers every prompt with its first option below; a run
\* may depart from it at most MaxDepartures times.
Offered(options, plain) == IF budget > 0 THEN options \cup {plain} ELSE {plain}

Spend(x, plain) == budget' = IF x = plain THEN budget ELSE budget - 1

\* The prompts answered so far: prompt() prints its label once per call,
\* also when a menu asks for the number again.
Shown(label) ==
    IF asked # <<>> /\ asked[Len(asked)] = label THEN asked ELSE Append(asked, label)

Abort(exception) ==
    /\ pc' = "aborted"
    /\ loc' = Put(loc, "exception", exception)

NameLines == {<<"J">>, <<>>, <<" ">>, <<" ", "J", " ">>}

TypeLines == {<<"B">>, <<>>}

CityLines == {<<"H">>, <<>>}

WebsiteLines == {SiteUrl, <<>>, <<"N", "o", "n", "e">>, <<"n">>, <<"http://">> \o SiteUrl}

NoneWord == <<"N", "o", "n", "e">>

Init ==
    /\ pc = "business_name"
    /\ data = EmptyDict
    /\ loc = [auto_findings |-> <<>>]
    /\ net = <<>>
    /\ asked = <<>>
    /\ story = <<>>
    /\ budget = MaxDepartures

\* 284
AskBusinessName ==
    /\ pc = "business_name"
    /\ \E typed \in Offered(NameLines, <<"J">>) :
          /\ data' = Put(data, "business_name", PromptText(typed, None))
          /\ Spend(typed, <<"J">>)
    /\ asked' = Shown("business_name")
    /\ pc' = "business_type"
    /\ UNCHANGED <<loc, net, story>>

\* 285
AskBusinessType ==
    /\ pc = "business_type"
    /\ \E typed \in Offered(TypeLines, <<"B">>) :
          /\ data' = Put(data, "business_type", PromptText(typed, None))
          /\ Spend(typed, <<"B">>)
    /\ asked' = Shown("business_type")
    /\ pc' = "business_city"
    /\ UNCHANGED <<loc, net, story>>

\* 286
AskBusinessCity ==
    /\ pc = "business_city"
    /\ \E typed \in Offered(CityLines, <<"H">>) :
          /\ data' = Put(data, "business_city", PromptText(typed, None))
          /\ Spend(typed, <<"H">>)
    /\ asked' = Shown("business_city")
    /\ pc' = "website_url"
    /\ UNCHANGED <<loc, net, story>>

\* 288-290
AskWebsite ==
    /\ pc = "website_url"
    /\ \E typed \in Offered(WebsiteLines, SiteUrl) :
          LET website_input == PromptText(typed, <<>>)
              has_website == Truthy(website_input)
                             /\ Lower(website_input) \notin NoWebsiteWords
          IN  /\ data' = Put(Put(data, "has_website", has_website), "website_url",
                             IF has_website THEN website_input ELSE NoneWord)
              /\ loc' = Put(loc, "website_input", website_input)
              /\ Spend(typed, SiteUrl)
    /\ asked' = Shown("website_url")
    /\ pc' = "check_website"
    /\ UNCHANGED <<net, story>>

PlainGet == Resp(200, Html)

\* What the direct GET and, after a TLS failure, the retry do in a run.
SiteOutcomes ==
    {<<o1, PlainGet>> : o1 \in {PlainGet, Resp(200, <<>>), Resp(404, Html), OtherError}}
    \cup {<<SslError, o2>> : o2 \in {PlainGet, Resp(500, Html), OtherError}}

\* 296, and 307 when the manual fallback is not entered
CheckWebsiteStep ==
    /\ pc = "check_website"
    /\ \E o \in IF data.has_website THEN Offered(SiteOutcomes, <<PlainGet, PlainGet>>)
                ELSE {<<PlainGet, PlainGet>>} :
          LET r == check_website(IF data.has_website THEN data.website_url ELSE None,
                                 o[1], o[2])
          IN  /\ loc' = Put(Put(Put(loc, "site_exists", r.exists), "site_url", r.url),
                            "html", r.html)
              /\ net' = net \o r.gets
              /\ Spend(o, <<PlainGet, PlainGet>>)
              /\ IF data.has_website /\ ~r.exists
                 THEN /\ pc' = "manual_confirm"
                      /\ UNCHANGED data
                 ELSE /\ pc' = "seo"
                      /\ data' = Put(data, "has_website", r.exists)
    /\ UNCHANGED <<asked, story>>

ConfirmLines == {<<>>, <<"y">>, <<"Y">>, <<"n">>, <<"y", "e", "s">>}

\* 298-307
ManualConfirm ==
    /\ pc = "manual_confirm"
    /\ \E typed \in Offered(ConfirmLines, <<>>) :
          LET manual_confirm == Lower(PromptText(typed, <<"n">>))
          IN  /\ IF manual_confirm = <<"y">>
                 THEN /\ loc' = Put(Put(Put(loc, "site_exists", TRUE), "site_url",
                                        clean_url(data.website_url)), "html", None)
                      /\ data' = Put(data, "has_website", TRUE)
                 ELSE /\ data' = Put(data, "has_website", loc.site_exists)
                      /\ UNCHANGED loc
              /\ Spend(typed, <<>>)
    /\ asked' = Shown("manual_confirm")
    /\ pc' = "seo"
    /\ UNCHANGED <<net, story>>

SeoAll(b) == [k \in Signals |-> b]

\* What check_website_seo_basics finds in a page: every signal, none, all
\* but the city in the title, all but the three city signals, all but the
\* phone number and the viewport.
SeoCases ==
    {SeoAll(TRUE), SeoAll(FALSE),
     [SeoAll(TRUE) EXCEPT !["city_in_title"] = FALSE],
     [SeoAll(TRUE) EXCEPT !["city_in_title"] = FALSE, !["city_in_h1"] = FALSE,
                          !["city_in_content"] = FALSE],
     [SeoAll(TRUE) EXCEPT !["has_phone"] = FALSE, !["is_mobile_ready"] = FALSE]}

\* 310-312.  check_website_seo_basics (202-239) calls city.lower() and
\* business_type.lower(): an AttributeError when the prompt returned None.
SeoStep ==
    /\ pc = "seo"
    /\ IF Truthy(loc.html) /\ (data.business_city = None \/ data.business_type = None)
       THEN /\ Abort("AttributeError")
            /\ UNCHANGED <<data, budget>>
       ELSE /\ \E seo \in IF Truthy(loc.html) THEN Offered(SeoCases, SeoAll(TRUE))
                          ELSE {EmptyDict} :
                  LET r == auto_website_score(loc.site_exists, seo)
                  IN  /\ loc' = Put(Put(Put(Put(loc, "seo", seo),
                                    "auto_site_score", r.score), "site_issues", r.issues),
                                    "auto_findings", loc.auto_findings \o r.issues)
                      /\ Spend(seo, IF Truthy(loc.html) THEN SeoAll(TRUE) ELSE EmptyDict)
            /\ pc' = "pagespeed"
            /\ UNCHANGED data
    /\ UNCHANGED <<net, asked, story>>

PlainPs == PsJson(95, None)

RunPsOutcomes ==
    {PlainPs, PsRaise, PsShape, PsJson(NoneNum, None)}
    \cup {PsJson(h, None) : h \in {29, 50, 55, 69, 70}}

SpeedFinding_MutThrough70(pct) ==
    IF pct = NoneNum THEN <<>>
    ELSE IF pct < 50
    THEN << <<"Mobile PageSpeed score is ", ToString(pct), "/100 - very slow, hurts rankings">> >>
    ELSE IF pct <= 70
    THEN << <<"Mobile PageSpeed score is ", ToString(pct), "/100 - needs improvement">> >>
    ELSE <<>>

\* 317-321: the finding appended for a fetched percentage
SpeedFinding(pct) ==
    IF pct = NoneNum THEN <<>>
    ELSE IF pct < 50
    THEN << <<"Mobile PageSpeed score is ", ToString(pct), "/100 - very slow, hurts rankings">> >>
    ELSE IF pct < 70
    THEN << <<"Mobile PageSpeed score is ", ToString(pct), "/100 - needs improvement">> >>
    ELSE <<>>

\* 315-321
PageSpeedStep ==
    /\ pc = "pagespeed"
    /\ \E o \in IF loc.site_exists THEN Offered(RunPsOutcomes, PlainPs) ELSE {PlainPs} :
          LET r == IF loc.site_exists THEN get_pagespeed_score(loc.site_url, o)
                   ELSE [pct |-> NoneNum, error |-> <<"No website">>, gets |-> <<>>]
          IN  /\ loc' = Put(Put(Put(Put(loc, "pagespeed_pct", r.pct), "ps_error", r.error),
                            "auto_speed_score", pagespeed_to_score(r.pct)),
                            "auto_findings", loc.auto_findings \o SpeedFinding(r.pct))
              /\ net' = net \o r.gets
              /\ Spend(o, PlainPs)
    /\ pc' = "gbp"
    /\ UNCHANGED <<data, asked, story>>

PlainGbp == GbpPage(<<"4.9">>, <<"12">>, TRUE)

ScrapeStep_MutBothUnknown ==
    /\ pc = "gbp"
    /\ \E o \in Offered(GbpOutcomes, PlainGbp) :
          LET gbp == scrape_gbp_basics(o)
          IN  /\ loc' = Put(loc, "gbp", gbp)
              /\ net' = Append(net, Get(SearchUrl, o))
              /\ Spend(o, PlainGbp)
              /\ IF gbp.rating = Unknown /\ gbp.review_count = Unknown
                 THEN /\ pc' = "review_rating"
                      /\ UNCHANGED data
                 ELSE /\ pc' = "comp_name"
                      /\ data' = Put(Put(data, "review_rating", gbp.rating),
                                     "review_count", gbp.review_count)
    /\ UNCHANGED <<asked, story>>

\* 324-333 up to the first prompt
ScrapeStep ==
    /\ pc = "gbp"
    /\ \E o \in Offered(GbpOutcomes, PlainGbp) :
          LET gbp == scrape_gbp_basics(o)
          IN  /\ loc' = Put(loc, "gbp", gbp)
              /\ net' = Append(net, Get(SearchUrl, o))
              /\ Spend(o, PlainGbp)
              /\ IF gbp.rating = Unknown \/ gbp.review_count = Unknown
                 THEN /\ pc' = "review_rating"
                      /\ UNCHANGED data
                 ELSE /\ pc' = "comp_name"
                      /\ data' = Put(Put(data, "review_rating", gbp.rating),
                                     "review_count", gbp.review_count)
    /\ UNCHANGED <<asked, story>>

RatingLines == {<<>>, <<"4", ".", "2">>, <<"?">>}

CountLines == {<<>>, <<"7">>, <<"?">>}

\* 329
AskReviewRating ==
    /\ pc = "review_rating"
    /\ \E typed \in Offered(RatingLines, <<>>) :
          /\ data' = Put(data, "review_rating", PromptText(typed, <<"n", "o", "n", "e">>))
          /\ Spend(typed, <<>>)
    /\ pc' = "review_count"
    /\ asked' = Shown("review_rating")
    /\ UNCHANGED <<loc, net, story>>

\* 330
AskReviewCount ==
    /\ pc = "review_count"
    /\ \E typed \in Offered(CountLines, <<>>) :
          /\ data' = Put(data, "review_count", PromptText(typed, <<"0">>))
          /\ Spend(typed, <<>>)
    /\ pc' = "comp_name"
    /\ asked' = Shown("review_count")
    /\ UNCHANGED <<loc, net, story>>

TextLines == {<<>>, <<"K">>}

\* 354-356: the competitor's name, review count and rating, each "N/A" when
\* the line is blank
AskCompetitor(field, next) ==
    /\ pc = field
    /\ \E typed \in Offered(TextLines, <<>>) :
          /\ data' = Put(data, field, PromptText(typed, <<"N/A">>))
          /\ Spend(typed, <<>>)
    /\ asked' = Shown(field)
    /\ pc' = next
    /\ UNCHANGED <<loc, net, story>>

AskCompName == AskCompetitor("comp_name", "comp_reviews")

AskCompReviews == AskCompetitor("comp_reviews", "comp_rating")

AskCompRating == AskCompetitor("comp_rating", "comp_has_site")

YesNoLines == {<<>>, <<"n">>, <<"Y">>}

\* 357
AskCompHasSite ==
    /\ pc = "comp_has_site"
    /\ \E typed \in Offered(YesNoLines, <<>>) :
          /\ data' = Put(data, "comp_has_site", Lower(PromptText(typed, <<"y">>)) = <<"y">>)
          /\ Spend(typed, <<>>)
    /\ asked' = Shown("comp_has_site")
    /\ pc' = "website_score"
    /\ UNCHANGED <<loc, net, story>>

OverrideLines == {<<>>, <<"0">>, <<"3">>, <<"9">>, <<" ", "4">>, <<"x">>, <<"^2">>}

MenuLines == {<<"3">>, <<"1">>, <<"5">>, <<"0">>, <<"6">>, <<"x">>, <<>>}

\* int(override) if override.isdigit() else auto, where int() accepts it
Override(override, auto) == IF IsDigit(override) THEN ToInt(override) ELSE auto

\* int(override) raises ValueError on a digit character that is no decimal digit
OverrideRaises(override) == IsDigit(override) /\ ~IntParses(override)

\* 365-373.  auto_site_score is at least 1, so with the site existing the
\* first branch is taken and the menu of line 373 is never shown.
WebsiteScoreStep ==
    /\ pc = "website_score"
    /\ IF loc.auto_site_score # 0 /\ loc.site_exists
       THEN \E typed \in Offered(OverrideLines, <<>>) :
               LET override == PromptText(typed, <<>>)
               IN  /\ Spend(typed, <<>>)
                   /\ asked' = Shown("website_override")
                   /\ IF OverrideRaises(override)
                      THEN Abort("ValueError") /\ UNCHANGED data
                      ELSE /\ data' = Put(data, "website_score",
                                          Override(override, loc.auto_site_score))
                           /\ pc' = "speed_score"
                           /\ UNCHANGED loc
       ELSE /\ ~loc.site_exists
            /\ data' = Put(data, "website_score", 1)
            /\ pc' = "speed_score"
            /\ UNCHANGED <<loc, asked, budget>>
    /\ UNCHANGED <<net, story>>

\* One pass of a score menu (prompt with score_opts): a valid number is
\* stored, anything else is answered "Invalid. Try again."
AskMenu(field, next) ==
    \E typed \in Offered(MenuLines, <<"3">>) :
        LET val == PromptMenu(typed, 5)
        IN  /\ Spend(typed, <<"3">>)
            /\ asked' = Shown(field)
            /\ IF val # NoneNum
               THEN data' = Put(data, field, val) /\ pc' = next
               ELSE UNCHANGED <<data, pc>>
            /\ UNCHANGED <<loc, net, story>>

\* 376-388
SpeedScoreStep ==
    /\ pc = "speed_score"
    /\ IF loc.auto_speed_score # NoneNum /\ loc.auto_speed_score # 0
       THEN /\ \E typed \in Offered(OverrideLines, <<>>) :
                  LET override == PromptText(typed, <<>>)
                  IN  /\ Spend(typed, <<>>)
                      /\ asked' = Shown("speed_override")
                      /\ IF OverrideRaises(override)
                         THEN Abort("ValueError") /\ UNCHANGED data
                         ELSE /\ data' = Put(data, "speed_score",
                                             Override(override, loc.auto_speed_score))
                              /\ pc' = "gbp_score"
                              /\ UNCHANGED loc
            /\ UNCHANGED <<net, story>>
       ELSE IF ~loc.site_exists
       THEN /\ data' = Put(data, "speed_score", 1)
            /\ pc' = "gbp_score"
            /\ UNCHANGED <<loc, asked, budget, net, story>>
       ELSE AskMenu("speed_score", "gbp_score")

\* 393
AskGbpScore == pc = "gbp_score" /\ AskMenu("gbp_score", "visibility_score")

\* 398
AskVisibilityScore == pc = "visibility_score" /\ AskMenu("visibility_score", "geo_score")

\* 403
AskGeoScore == pc = "geo_score" /\ AskMenu("geo_score", "findings")

FindingLines == {<<>>, <<" ">>, <<"f">>, <<"g", " ">>}

\* 414-423: one pass of the loop over input().  blank_lines is a history
\* of the input: how many blank lines in a row the loop has just read (two
\* stands for two or more).
ReadFinding ==
    /\ pc = "findings"
    /\ \E typed \in Offered(FindingLines, <<>>) :
          LET line == Strip(typed)
              manual_findings == IF "manual_findings" \in DOMAIN loc
                                 THEN loc.manual_findings ELSE <<>>
              blank_lines == IF "blank_lines" \in DOMAIN loc
                             THEN loc.blank_lines ELSE 0
              read == Put(loc, "blank_lines",
                          IF line # <<>> THEN 0
                          ELSE IF blank_lines >= 1 THEN 2 ELSE 1)
          IN  /\ Spend(typed, <<>>)
              /\ IF line = <<>> /\ (manual_findings = <<>>
                                    \/ manual_findings[Len(manual_findings)] = <<>>)
                 THEN /\ data' = Put(Put(data, "findings",
                                         loc.auto_findings \o manual_findings),
                                     "recommendations", <<>>)
                      /\ loc' = Put(read, "manual_findings", manual_findings)
                      /\ pc' = "recommendation_1"
                 ELSE /\ line # <<>> => Len(manual_findings) < MaxManualFindings
                      /\ loc' = Put(read, "manual_findings",
                                    IF line # <<>> THEN Append(manual_findings, line)
                                    ELSE manual_findings)
                      /\ UNCHANGED <<data, pc>>
    /\ UNCHANGED <<net, asked, story>>

RecLine(i) == <<"r", ToString(i)>>

AskRecommendation_MutPrepends(i, next) ==
    /\ pc = "recommendation_" \o ToString(i)
    /\ \E typed \in Offered({RecLine(i), <<>>, <<" ">>}, RecLine(i)) :
          LET r == PromptText(typed, None)
          IN  /\ data' = IF Truthy(r)
                         THEN Put(data, "recommendations", <<r>> \o data.recommendations)
                         ELSE data
              /\ Spend(typed, RecLine(i))
    /\ asked' = Shown("recommendation_" \o ToString(i))
    /\ pc' = next
    /\ UNCHANGED <<loc, net, story>>

\* 429-432: one pass of the loop over the three recommendations
AskRecommendation(i, next) ==
    /\ pc = "recommendation_" \o ToString(i)
    /\ \E typed \in Offered({RecLine(i), <<>>, <<" ">>}, RecLine(i)) :
          LET r == PromptText(typed, None)
          IN  /\ data' = IF Truthy(r)
                         THEN Put(data, "recommendations", Append(data.recommendations, r))
                         ELSE data
              /\ Spend(typed, RecLine(i))
    /\ asked' = Shown("recommendation_" \o ToString(i))
    /\ pc' = next
    /\ UNCHANGED <<loc, net, story>>

AskRecommendation1 == AskRecommendation(1, "recommendation_2")

AskRecommendation2 == AskRecommendation(2, "recommendation_3")

AskRecommendation3 == AskRecommendation(3, "auditor_name")

Today == <<"today">>

\* 434-437: collect_data returns
AskAuditorName ==
    /\ pc = "auditor_name"
    /\ \E typed \in Offered({<<>>, <<"A">>}, <<>>) :
          /\ data' = Put(Put(data, "auditor_name",
                             PromptText(typed, <<"Queso Ventures">>)),
                         "audit_date", Today)
          /\ Spend(typed, <<>>)
    /\ asked' = Shown("auditor_name")
    /\ pc' = "main"
    /\ UNCHANGED <<loc, net, story>>

----------------------------------------------------------------------------
(* main and build_pdf, src/audit.py 440-671 *)

\* data["business_name"].replace(" ", "_").replace("/", "-").lower()
SafeName(name) ==
    Lower([i \in DOMAIN name |->
              IF name[i] = " " THEN "_" ELSE IF name[i] = "/" THEN "-" ELSE name[i]])

ScoreKeys == <<"website_score", "speed_score", "gbp_score", "visibility_score",
               "geo_score">>

\* sum([data[k] for k in [...]])
TotalScore(d) ==
    d.website_score + d.speed_score + d.gbp_score + d.visibility_score + d.geo_score

\* int((total_score / 25) * 100): the float product falls just below
\* 4 * total_score for these totals (exact for every other total below 113)
TotalTruncatedBelow == {29, 57, 58}

TotalPct(total_score) ==
    IF total_score \in TotalTruncatedBelow THEN 4 * total_score - 1 ELSE 4 * total_score

YesNo(b) == IF b THEN "Yes" ELSE "No"

\* One row of the score table: the score, its colour and label, and how
\* many of the five bar cells are coloured (i <= sc)
ScoreRow(d, key) ==
    [key |-> key, score |-> d[key], color |-> score_color(d[key], 5),
     label |-> score_label(d[key], 5),
     filled |-> Cardinality({i \in 1 .. 5 : i <= d[key]})]

\* The story build_pdf hands to doc.build, flowable by flowable
build_pdf(d) ==
    [header |-> <<d.business_name, d.business_type, d.business_city, d.audit_date>>,
     total_pct |-> TotalPct(TotalScore(d)),
     overall_col |-> score_color(TotalScore(d), 25),
     overview |-> <<d.review_rating, d.review_count,
                    IF d.has_website THEN "[check] Yes" ELSE "[cross] No">>,
     rows |-> [i \in 1 .. 5 |-> ScoreRow(d, ScoreKeys[i])],
     competitor |-> <<d.comp_name, d.comp_rating, d.comp_reviews,
                      YesNo(d.has_website), YesNo(d.comp_has_site)>>,
     findings |-> d.findings,
     recommendations |-> [i \in DOMAIN d.recommendations |-> <<i, d.recommendations[i]>>],
     footer |-> <<d.auditor_name, d.audit_date>>]

Folders == {"~/Desktop", "cwd"}

\* 660-668: the output path; None has no replace()
MainStep ==
    /\ pc = "main"
    /\ IF data.business_name = None
       THEN Abort("AttributeError") /\ UNCHANGED budget
       ELSE \E folder \in Offered(Folders, "~/Desktop") :
               /\ loc' = Put(loc, "output",
                             <<folder, "/audit_">> \o SafeName(data.business_name)
                                 \o <<"_">> \o Today \o <<".pdf">>)
               /\ Spend(folder, "~/Desktop")
               /\ pc' = "build_pdf"
    /\ UNCHANGED <<data, net, asked, story>>

BuildPdfStep_MutConsumes ==
    /\ pc = "build_pdf"
    /\ story' = Append(story, build_pdf(data))
    /\ data' = Put(data, "recommendations", <<>>)
    /\ pc' = "saved"
    /\ UNCHANGED <<loc, net, asked, budget>>

\* 669-671
BuildPdfStep ==
    /\ pc = "build_pdf"
    /\ story' = Append(story, build_pdf(data))
    /\ pc' = "saved"
    /\ UNCHANGED <<data, loc, net, asked, budget>>

\* build_pdf called once more on the record of the finished run
BuildPdfAgain ==
    /\ pc = "saved"
    /\ Len(story) = 1
    /\ story' = Append(story, build_pdf(data))
    /\ UNCHANGED <<pc, data, loc, net, asked, budget>>

Next ==
    \/ AskBusinessName \/ AskBusinessType \/ AskBusinessCity \/ AskWebsite
    \/ CheckWebsiteStep \/ ManualConfirm \/ SeoStep \/ PageSpeedStep
    \/ ScrapeStep \/ AskReviewRating \/ AskReviewCount
    \/ AskCompName \/ AskCompReviews \/ AskCompRating \/ AskCompHasSite
    \/ WebsiteScoreStep \/ SpeedScoreStep
    \/ AskGbpScore \/ AskVisibilityScore \/ AskGeoScore
    \/ ReadFinding
    \/ AskRecommendation1 \/ AskRecommendation2 \/ AskRecommendation3
    \/ AskAuditorName
    \/ MainStep \/ BuildPdfStep \/ BuildPdfAgain

Spec == Init /\ [][Next]_vars

----------------------------------------------------------------------------
(* Claims about a run *)

Contains(list, x) == \E i \in DOMAIN list : list[i] = x

\* The auto-fetch phase has settled whether the site exists.
AfterSiteCheck ==
    /\ pc \notin {"business_name", "business_type", "business_city", "website_url",
                  "check_website", "manual_confirm"}
    /\ "site_exists" \in DOMAIN loc

\* collect_data has returned its record.
Returned == pc \in {"main", "build_pdf", "saved"}

IsSpeedFinding(f) == Len(f) = 3 /\ f[1] = "Mobile PageSpeed score is "

IsNeedsImprovement(f) == IsSpeedFinding(f) /\ f[3] = "/100 - needs improvement"

PageSpeedLookups == {i \in DOMAIN net : SubSeq(net[i].url, 1, 1) = PageSpeedApi}

\* C4: a run that leaves the auto-fetch phase with no reachable website
\* (URL blank or 'none'/'n', or unreachable and not confirmed) has
\* has_website false, website_score 1 and speed_score 1, shows no override
\* prompt and no manual speed menu, issues no page-speed lookup, lists
\* "No website found" among the findings, and every document built from the
\* record shows "Has Website" as No.
C4_NoWebsiteForcesOnes ==
    (AfterSiteCheck /\ ~loc.site_exists) =>
        /\ data.has_website = FALSE
        /\ "website_score" \in DOMAIN data => data.website_score = 1
        /\ "speed_score" \in DOMAIN data => data.speed_score = 1
        /\ ~Contains(asked, "website_override")
        /\ ~Contains(asked, "speed_override")
        /\ ~Contains(asked, "speed_score")
        /\ PageSpeedLookups = {}
        /\ "auto_findings" \in DOMAIN loc /\ pc \notin {"seo", "aborted"} =>
              Contains(loc.auto_findings, <<"No website found">>)
        /\ Returned =>
              /\ Contains(data.findings, <<"No website found">>)
              /\ data.website_score = 1 /\ data.speed_score = 1
        /\ \A i \in DOMAIN story :
              /\ story[i].overview[3] = "[cross] No"
              /\ story[i].competitor[4] = "No"

\* A URL was typed, the site did not answer, the operator did not confirm
\* it, and the document was built.
C4_Witness ==
    /\ pc = "saved"
    /\ loc.website_input = SiteUrl
    /\ ~loc.site_exists
    /\ Contains(asked, "manual_confirm")
    /\ data.website_score = 1 /\ data.speed_score = 1
    /\ story[1].overview[3] = "[cross] No"

\* C5: in every record collect_data returns, each of the five category
\* scores is an integer in 1..5 whatever is typed at the override prompts
\* and the menus, so the aggregate is in 5..25 and the percentage build_pdf
\* shows is in 20..100.
C5_ScoresInRange ==
    Returned =>
        /\ \A i \in DOMAIN ScoreKeys : data[ScoreKeys[i]] \in 1 .. 5
        /\ TotalScore(data) \in 5 .. 25
        /\ \A i \in DOMAIN story : story[i].total_pct \in 20 .. 100

\* C6: whatever the collaborators do and the operator answers, blank
\* answers to free-text prompts included, the run goes from collection
\* through rendering without an uncaught exception.
C6_NeverAborts == pc # "aborted"

\* C8: a fetched percentage of 55 derives score 3 and appends the "needs
\* improvement" finding; that finding is appended only for a percentage
\* below 70; at most one page-speed finding is appended in a run, and none
\* when the percentage is 70 or more or unavailable.
C8_SpeedFinding ==
    ("pagespeed_pct" \in DOMAIN loc /\ pc # "aborted") =>
        LET pct == loc.pagespeed_pct
            found == {i \in DOMAIN loc.auto_findings : IsSpeedFinding(loc.auto_findings[i])}
        IN  /\ pct = 55 =>
                  /\ loc.auto_speed_score = 3
                  /\ \E i \in found :
                        /\ IsNeedsImprovement(loc.auto_findings[i])
                        /\ loc.auto_findings[i][2] = "55"
            /\ \A i \in found :
                  IsNeedsImprovement(loc.auto_findings[i]) => (pct # NoneNum /\ pct < 70)
            /\ Cardinality(found) <= 1
            /\ (pct = NoneNum \/ pct >= 70) => found = {}
            /\ Returned =>
                  Cardinality({i \in DOMAIN data.findings :
                                  IsSpeedFinding(data.findings[i])}) = Cardinality(found)

C8_Witness ==
    /\ pc = "saved"
    /\ loc.pagespeed_pct = 55
    /\ loc.auto_speed_score = 3
    /\ \E i \in DOMAIN data.findings : IsNeedsImprovement(data.findings[i])

\* A step of build_pdf leaves the record as it was.
C10_RecordKept == (pc \in {"build_pdf", "saved"}) => (data' = data)

C11_TwoBlankLinesEnd ==
    ("blank_lines" \in DOMAIN loc /\ loc.blank_lines = 2) => pc # "findings"

\* The SEO issue texts auto_website_score can report.
C12_SeoIssues == {Issue(k) : k \in Signals}

\* C12: when the site is marked as existing without fetched HTML (manual
\* confirmation of an unreachable site, or an empty body), the SEO checks
\* are skipped: no SEO-signal issue is added to the findings and the
\* auto-detected website score is not lowered by signals never checked.
C12_SkippedSeoAddsNothing ==
    ("site_issues" \in DOMAIN loc /\ loc.site_exists /\ ~Truthy(loc.html)) =>
        /\ loc.site_issues = <<>>
        /\ loc.auto_site_score = 5
        /\ \A i \in DOMAIN loc.auto_findings : loc.auto_findings[i] \notin C12_SeoIssues
        /\ Returned =>
              \A i \in DOMAIN data.findings : data.findings[i] \notin C12_SeoIssues

\* The listing values are settled: scraped, or asked of the operator.
C13_Settled ==
    /\ "gbp" \in DOMAIN loc
    /\ pc \notin {"gbp", "review_rating", "review_count", "aborted"}

C13_ScrapeUnknown == loc.gbp.rating = Unknown \/ loc.gbp.review_count = Unknown

C13_Prompted == Contains(asked, "review_rating") /\ Contains(asked, "review_count")

C13_NotPrompted == ~Contains(asked, "review_rating") /\ ~Contains(asked, "review_count")

\* What the two prompts can store: the stripped answer, or the default for
\* a blank one.
C13_RatingAnswers == {PromptText(t, <<"n", "o", "n", "e">>) : t \in RatingLines}

C13_CountAnswers == {PromptText(t, <<"0">>) : t \in CountLines}

\* C13 as stated: an unknown scraped value leads to both prompts and both
\* scraped values are dropped, otherwise both scraped values are stored
\* without a prompt; and no returned record holds "?" as review_rating or
\* review_count.
C13_NeverUnknown ==
    /\ C13_Settled =>
          IF C13_ScrapeUnknown
          THEN C13_Prompted
          ELSE /\ C13_NotPrompted
               /\ data.review_rating = loc.gbp.rating
               /\ data.review_count = loc.gbp.review_count
    /\ Returned => (data.review_rating # Unknown /\ data.review_count # Unknown)

\* C13, amended: an unknown scraped value leads to both prompts and the
\* record holds the operator's two answers (a blank answer stored as "none"
\* and "0", any other answer as typed, "?" included); otherwise both scraped
\* values are stored without a prompt and neither is "?".  A "?" of the
\* scrape itself is never stored.
C13_UnknownOnlyIfTyped ==
    C13_Settled =>
        IF C13_ScrapeUnknown
        THEN /\ C13_Prompted
             /\ data.review_rating \in C13_RatingAnswers
             /\ data.review_count \in C13_CountAnswers
             /\ Truthy(data.review_rating) /\ Truthy(data.review_count)
        ELSE /\ C13_NotPrompted
             /\ data.review_rating = loc.gbp.rating
             /\ data.review_count = loc.gbp.review_count
             /\ data.review_rating # Unknown /\ data.review_count # Unknown

\* The scrape found the rating but not the review count; the operator was
\* asked for both and the scraped rating gave way to the typed one.
C13_Witness ==
    /\ pc = "saved"
    /\ loc.gbp.rating = <<"4.9">> /\ loc.gbp.review_count = Unknown
    /\ C13_Prompted
    /\ data.review_rating = <<"4", ".", "2">>
    /\ data.review_count = <<"0">>

\* The place of a website issue in the fixed order of the signals.
C14_Rank(f) == CHOOSE k \in DOMAIN SignalOrder : Issue(SignalOrder[k]) = f

\* The number of the prompt a recommendation answers.
C14_Asked(r) == CHOOSE i \in 1 .. 3 : RecLine(i) = r

C14_Increasing(ranks) ==
    \A i, j \in DOMAIN ranks : i < j => ranks[i] < ranks[j]

C14_ManualFindings == IF "manual_findings" \in DOMAIN loc THEN loc.manual_findings ELSE <<>>

\* The record's findings: website issues in signal order, then the
\* page-speed finding, then the operator's findings.
C14_FindingsInOrder ==
    Returned =>
        /\ data.findings
              = loc.site_issues \o SpeedFinding(loc.pagespeed_pct) \o C14_ManualFindings
        /\ loc.site_exists =>
              /\ \A i \in DOMAIN loc.site_issues : loc.site_issues[i] \in C12_SeoIssues
              /\ C14_Increasing([i \in DOMAIN loc.site_issues |->
                                    C14_Rank(loc.site_issues[i])])

\* The record's recommendations: at most three, none blank, in the order
\* of the prompts they answer.
C14_RecommendationsInOrder ==
    "recommendations" \in DOMAIN data =>
        /\ Len(data.recommendations) <= 3
        /\ \A i \in DOMAIN data.recommendations :
              /\ Truthy(data.recommendations[i])
              /\ \E k \in 1 .. 3 : data.recommendations[i] = RecLine(k)
        /\ C14_Increasing([i \in DOMAIN data.recommendations |->
                              C14_Asked(data.recommendations[i])])

\* The document lists what the record lists, recommendations numbered 1..n.
C14_Emitted ==
    \A s \in DOMAIN story :
        /\ story[s].findings = data.findings
        /\ Len(story[s].recommendations) = Len(data.recommendations)
        /\ \A i \in DOMAIN data.recommendations :
              story[s].recommendations[i] = <<i, data.recommendations[i]>>

\* A line read by the findings loop or answered to a recommendation prompt
\* is dropped when blank and otherwise added, stripped, at the end.
C14_GrowsAtEnd(old, new) ==
    \/ new = old
    \/ /\ Len(new) = Len(old) + 1
       /\ SubSeq(new, 1, Len(old)) = old
       /\ new[Len(new)] # <<>>
       /\ Strip(new[Len(new)]) = new[Len(new)]

C14_EntryOrder ==
    /\ (pc = "findings" /\ "manual_findings" \in DOMAIN loc') =>
          C14_GrowsAtEnd(C14_ManualFindings, loc'.manual_findings)
    /\ (pc \in {"recommendation_1", "recommendation_2", "recommendation_3"}) =>
          C14_GrowsAtEnd(data.recommendations, data'.recommendations)

C14_LoopWitness ==
    /\ pc = "findings"
    /\ C14_ManualFindings = << <<"f">>, <<"g">> >>

----------------------------------------------------------------------------
(* Claims about prompt *)

\* The integer a typed line stands for; NoneNum for a line that is no number
\* and for the negative one, which no range holds.
C15_Number(line) ==
    CASE line = <<"1">> -> 1
      [] line \in {<<"3">>, <<" ", "3", " ">>, <<"0", "3">>} -> 3
      [] line = <<"0">> -> 0
      [] line = <<"6">> -> 6
      [] OTHER -> NoneNum

C15_Valid(line, n) == C15_Number(line) # NoneNum /\ C15_Number(line) \in 1 .. n

\* The line without the blanks around it.
C15_Stripped(line) ==
    CASE line \in {<<>>, <<" ">>} -> <<>>
      [] line = <<" ", "3", " ">> -> <<"3">>
      [] OTHER -> line

C15_MenuReturns ==
    loc.options > 0 =>
        LET n == loc.options
            read == Len(loc.lines)
        IN  /\ pc = "prompt" =>
                  /\ loc.result = NoneNum
                  /\ \A i \in 1 .. read : ~C15_Valid(loc.lines[i], n)
            /\ pc = "returned" =>
                  /\ loc.result \in 1 .. n
                  /\ read >= 1
                  /\ C15_Valid(loc.lines[read], n)
                  /\ loc.result = C15_Number(loc.lines[read])
                  /\ \A i \in 1 .. read - 1 : ~C15_Valid(loc.lines[i], n)

C15_TextReturns ==
    (loc.options = 0 /\ pc = "returned") =>
        /\ Len(loc.lines) = 1
        /\ loc.result = IF C15_Stripped(loc.lines[1]) = <<>> THEN loc.default
                        ELSE C15_Stripped(loc.lines[1])

\* C15: a menu prompt with n options returns only an integer v with
\* 1 <= v <= n; every line that is no number or is out of range is rejected
\* and the question asked again, nothing being returned until a valid number
\* is entered; a free-text prompt returns the stripped line, or the default
\* when the line is blank.
C15_PromptReturns == C15_MenuReturns /\ C15_TextReturns

\* A menu of five options rejected "6" and a word before it returned 3 for
\* a padded "3".
C15_Witness ==
    /\ pc = "returned"
    /\ loc.options = 5
    /\ loc.lines = << <<"6">>, <<"x">>, <<" ", "3", " ">> >>
    /\ loc.result = 3


=============================================================================
